---- MODULE Spec2Model ----
(***************************************************************************)
(* A model of the gRPC client of rusty-kaspa (rpc/grpc/src/client/mod.rs): *)
(* the Inner session object with its request channel, its resolver of      *)
(* pending requests, the response receiver task, the request timeout       *)
(* monitor, the shutdown handshake, and the subscription commands the      *)
(* GrpcClient facade and the Notifier put on the wire.                     *)
(***************************************************************************)
EXTENDS Integers, Sequences, FiniteSets, TLC

(* ------------------------------ bounds -------------------------------- *)

\* Number of call() invocations the callers may make.
MaxCalls == 2

\* Number of shutdown() invocations the owner may make.
MaxShutdowns == 2

\* Number of shutdown() invocations in Spec, where two calls are in flight.
SpecShutdowns == 1

\* Number of call() invocations in ShutdownSpec, where shutdown() is invoked twice.
ShutdownSpecCalls == 1

Calls == 1..MaxCalls

Shutdowns == 1..MaxShutdowns

\* Operations a call may carry (RpcApiOps); two are enough to tell them apart.
Ops == {"Ping", "GetBlock"}

\* Number of listeners that may be registered with the Notifier.
MaxListeners == 2

ListenerIds == 1..MaxListeners

\* Event types a listener may subscribe to (EventType); two of the nine.
EventTypes == {"BlockAdded", "VirtualSelectedParentChainChanged"}

(* ------------------------- program constants -------------------------- *)

REQUEST_TIMEOUT_DURATION == 5000

TIMEOUT_MONITORING_INTERVAL == 1000

\* Granularity of the model's clock, in milliseconds.
TimeStep == TIMEOUT_MONITORING_INTERVAL

(* ------------------------------- state -------------------------------- *)

VARIABLES
    handle_stop_notify,   \* Inner.handle_stop_notify (server's has_notify_command)
    handle_message_id,    \* Inner.handle_message_id  (server's has_message_id)
    request_stream,       \* requests sent through request_sender that the server
                          \* has not answered yet, oldest first
    request_recv_open,    \* the transport still holds the channel's receiver
    pendings,             \* the resolver's pending requests, oldest first
    completion,           \* per call: what its one-shot receiver was sent
    notify_queue,         \* contents of the notify_sender channel, oldest first
    notify_open,          \* the collector still holds the notification receiver
    callpc,               \* per call invocation: position in Inner::call
    callop,               \* per call invocation: the operation
    callpayload,          \* per call invocation: the request has a payload
    callresult,           \* per call invocation: what call() returned
    response_of,          \* per call invocation: whose request the response answered
    call_after_shutdown,  \* per call invocation: invoked after a shutdown() returned
    at_shutdown,          \* calls outstanding when some shutdown() was invoked
    receiver_is_running,  \* Inner.receiver_is_running
    receiver_request,     \* Inner.receiver_shutdown.request  (triggered?)
    receiver_response,    \* Inner.receiver_shutdown.response (triggered?)
    receiver_pc,          \* position of the response receiver task
    timeout_is_running,   \* Inner.timeout_is_running
    timeout_request,      \* Inner.timeout_shutdown.request  (triggered?)
    timeout_response,     \* Inner.timeout_shutdown.response (triggered?)
    timeout_pc,           \* position of the timeout monitor task
    timer,                \* time slept by the monitor in its current iteration
    shutpc,               \* per shutdown() invocation: position in Inner::shutdown
    listeners,            \* Notifier: the ids of the registered listeners
    next_listener_id,     \* Notifier: the id the next listener gets
    active,               \* Notifier: per listener and event type, the subscription is active
    wire_subscribed,      \* per event type: the last command put on the wire was a Start
    issued,               \* the wire commands the last facade operation put on the wire
    last_op,              \* the last facade operation of the notification API
    last_result,          \* and what it returned
    record_before,        \* the subscription record last_op is about, before last_op
    connect_pc,           \* position in Inner::connect
    first_response,       \* what stream.message() yielded to Inner::connect
    resolver,             \* Inner.resolver: the variant Inner::new constructed
    inbound,              \* messages the server has sent that the receiver task
                          \* has not read yet, oldest first
    notified,             \* number of notifications the server has sent
    collected,            \* notifications the collector has taken from the channel
    logged_errors,        \* number of stream errors the receiver task has logged
    filter_notification,  \* the notification a subscription filter is applied to
    filter_subscription,  \* the subscription whose filter is applied
    filter_result         \* what the filter returned

flagVars == <<handle_stop_notify, handle_message_id>>

channelVars == <<request_stream, request_recv_open>>

resolverVars == <<pendings, completion>>

notifyVars == <<notify_queue, notify_open>>

callVars == <<callpc, callop, callpayload, callresult, response_of, call_after_shutdown>>

receiverVars == <<receiver_is_running, receiver_request, receiver_response, receiver_pc>>

timeoutVars == <<timeout_is_running, timeout_request, timeout_response, timeout_pc, timer>>

notifierVars == <<listeners, next_listener_id, active, wire_subscribed, issued,
                  last_op, last_result, record_before>>

connectVars == <<connect_pc, first_response, resolver>>

streamVars == <<inbound, notified, collected, logged_errors>>

filterVars == <<filter_notification, filter_subscription, filter_result>>

sessionVars == <<channelVars, resolverVars, notifyVars, callVars, at_shutdown,
                 receiverVars, timeoutVars, shutpc>>

vars == <<flagVars, connectVars, sessionVars, streamVars, notifierVars, filterVars>>

(* ------------------------------ helpers ------------------------------- *)

Min(a, b) == IF a <= b THEN a ELSE b

RECURSIVE SelectSeqIdx(_, _, _)
\* The subsequence of s at the indices i >= from for which keep[i] holds.
SelectSeqIdx(s, keep, from) ==
    IF from > Len(s) THEN <<>>
    ELSE (IF keep[from] THEN <<s[from]>> ELSE <<>>) \o SelectSeqIdx(s, keep, from + 1)

RemoveAt(s, i) == SubSeq(s, 1, i - 1) \o SubSeq(s, i + 1, Len(s))

PendingCalls(P) == {P[i].call : i \in 1..Len(P)}

(* ------------------------------ resolver ------------------------------ *)

\* call() giving every request the same id.
request_id_constant(c) == 0

\* The id call() gives its request: 64 random bits, taken here to differ
\* from one invocation to the other.
request_id(c) == c

\* Resolver::register_request: a new pending at the back, its age zero.
register_request(P, c, op) ==
    Append(P, [call |-> c, op |-> op, id |-> request_id(c), age |-> 0])

\* Whether pending p is the one response r is for: by id with an IdResolver,
\* by operation with a QueueResolver.
is_matching(p, r) ==
    IF resolver = "id" THEN p.id = r.id ELSE p.op = r.op

\* Index of the first pending matching r, 0 when there is none.
match_index(P, r) ==
    LET hits == {i \in 1..Len(P) : is_matching(P[i], r)}
    IN IF hits = {} THEN 0 ELSE CHOOSE i \in hits : \A j \in hits : i <= j

\* Pendings that have waited for the timeout or longer.
is_timing_out(p, timeout) == p.age >= timeout

expired(P, timeout) == {i \in 1..Len(P) : is_timing_out(P[i], timeout)}

remove_expired_requests(P, timeout) ==
    SelectSeqIdx(P, [i \in 1..Len(P) |-> i \notin expired(P, timeout)], 1)

(* ------------------------------- Init --------------------------------- *)

\* Inner::new constructing a QueueResolver whatever the server handles.
new_resolver_always_queue(message_id) == "queue"

\* Inner::new: an IdResolver when the server handles message ids, a
\* QueueResolver otherwise.
new_resolver(message_id) == IF message_id THEN "id" ELSE "queue"

\* A GetInfo response carrying the two capability flags.
GetInfoResponse(notify_command, message_id) ==
    [kind |-> "GetInfo", has_notify_command |-> notify_command, has_message_id |-> message_id]

\* The state Inner::connect returns in: the capability flags are those of the
\* server's GetInfo response, the GetInfo request has left the channel, and
\* both tasks have been spawned (each spawn_* sets its is_running flag before
\* it spawns).
ConnectedInit ==
    /\ handle_stop_notify \in BOOLEAN
    /\ handle_message_id \in BOOLEAN
    /\ first_response = GetInfoResponse(handle_stop_notify, handle_message_id)
    /\ resolver = new_resolver(handle_message_id)
    /\ connect_pc = "ready"
    /\ request_recv_open = TRUE
    /\ receiver_is_running = TRUE
    /\ receiver_pc = "loop"
    /\ timeout_is_running = TRUE
    /\ timeout_pc = "loop"

\* What a session starts with whatever the handshake: no request, no
\* pending, no call, no shutdown, no trigger triggered, no listener, no
\* notification.
IdleInit ==
    /\ request_stream = <<>>
    /\ pendings = <<>>
    /\ completion = [c \in Calls |-> "none"]
    /\ notify_queue = <<>>
    /\ notify_open = TRUE
    /\ callpc = [c \in Calls |-> "idle"]
    /\ callop = [c \in Calls |-> "Ping"]
    /\ callpayload = [c \in Calls |-> TRUE]
    /\ callresult = [c \in Calls |-> "none"]
    /\ response_of = [c \in Calls |-> 0]
    /\ call_after_shutdown = [c \in Calls |-> FALSE]
    /\ at_shutdown = {}
    /\ receiver_request = FALSE
    /\ receiver_response = FALSE
    /\ timeout_request = FALSE
    /\ timeout_response = FALSE
    /\ timer = 0
    /\ shutpc = [s \in Shutdowns |-> "idle"]
    /\ listeners = {}
    /\ next_listener_id = 1
    /\ active = [l \in ListenerIds |-> [e \in EventTypes |-> FALSE]]
    /\ wire_subscribed = [e \in EventTypes |-> FALSE]
    /\ issued = <<>>
    /\ last_op = [name |-> "none", id |-> 0, event |-> "none"]
    /\ last_result = "none"
    /\ record_before = FALSE
    /\ inbound = <<>>
    /\ notified = 0
    /\ collected = <<>>
    /\ logged_errors = 0

\* The value of filter_result before a filter is applied.
Unapplied == [unapplied |-> TRUE]

\* No subscription filter has been applied.
NoFilter ==
    /\ filter_notification = [event |-> "none"]
    /\ filter_subscription = [active |-> FALSE, include_accepted_transaction_ids |-> FALSE]
    /\ filter_result = Unapplied

Init == ConnectedInit /\ IdleInit /\ NoFilter

(* --------------------------- Inner::connect --------------------------- *)

\* The state Inner::connect is entered in: no channel, no Inner, no task;
\* the two locals that collect the capabilities are false.
NotConnectedInit ==
    /\ handle_stop_notify = FALSE
    /\ handle_message_id = FALSE
    /\ first_response = [kind |-> "none"]
    /\ resolver = "none"
    /\ connect_pc = "start"
    /\ request_recv_open = FALSE
    /\ receiver_is_running = FALSE
    /\ receiver_pc = "unspawned"
    /\ timeout_is_running = FALSE
    /\ timeout_pc = "unspawned"

\* What stream.message() may yield first: the end of the stream, an error
\* status, a GetInfo response, or a message that converts to none.
FirstMessages ==
    {[kind |-> "closed"], [kind |-> "error"], [kind |-> "other"]}
    \cup {GetInfoResponse(n, m) : n \in BOOLEAN, m \in BOOLEAN}

\* connect(), up to its wait for the first message: the endpoint connects,
\* the request channel is created, the GetInfo request is sent and the
\* message stream is opened; connect() fails when one of these does.
connect_open(ok) ==
    /\ connect_pc = "start"
    /\ IF ok
       THEN /\ request_recv_open' = TRUE
            /\ connect_pc' = "await_info"
       ELSE /\ connect_pc' = "failed"
            /\ UNCHANGED request_recv_open
    /\ UNCHANGED <<flagVars, first_response, resolver, streamVars, filterVars, notifierVars,
                   request_stream, resolverVars, notifyVars, callVars, at_shutdown,
                   receiverVars, timeoutVars, shutpc>>

\* stream.message().await yields m: connect() fails on an error and on the
\* end of the stream; otherwise the capabilities are those of m when it is a
\* GetInfo response and false when it is not, and Inner::new constructs the
\* object with them.
connect_first_message(m) ==
    /\ connect_pc = "await_info"
    /\ first_response' = m
    /\ IF m.kind \in {"closed", "error"}
       THEN /\ connect_pc' = "failed"
            /\ request_recv_open' = FALSE
            /\ UNCHANGED <<flagVars, resolver>>
       ELSE /\ handle_stop_notify' = (m.kind = "GetInfo" /\ m.has_notify_command)
            /\ handle_message_id' = (m.kind = "GetInfo" /\ m.has_message_id)
            /\ resolver' = new_resolver(m.kind = "GetInfo" /\ m.has_message_id)
            /\ connect_pc' = "created"
            /\ UNCHANGED request_recv_open
    /\ UNCHANGED <<streamVars, filterVars, notifierVars, request_stream, resolverVars,
                   notifyVars, callVars, at_shutdown, receiverVars, timeoutVars, shutpc>>

\* inner.clone().spawn_request_timeout_monitor()
connect_spawn_request_timeout_monitor ==
    /\ connect_pc = "created"
    /\ timeout_is_running' = TRUE
    /\ timeout_pc' = "loop"
    /\ connect_pc' = "monitor_spawned"
    /\ UNCHANGED <<flagVars, first_response, resolver, streamVars, filterVars, notifierVars,
                   channelVars, resolverVars, notifyVars, callVars, at_shutdown,
                   receiverVars, timeout_request, timeout_response, timer, shutpc>>

\* inner.clone().spawn_response_receiver_task(stream), and connect() returns.
connect_spawn_response_receiver_task ==
    /\ connect_pc = "monitor_spawned"
    /\ receiver_is_running' = TRUE
    /\ receiver_pc' = "loop"
    /\ connect_pc' = "ready"
    /\ UNCHANGED <<flagVars, first_response, resolver, streamVars, filterVars, notifierVars,
                   channelVars, resolverVars, notifyVars, callVars, at_shutdown,
                   receiver_request, receiver_response, timeoutVars, shutpc>>

(* ---------------------------- Inner::call ----------------------------- *)

\* call() with the payload test misplaced: the request is registered first.
call_begin_register_first(c, op, payload) ==
    /\ connect_pc = "ready"
    /\ callpc[c] = "idle"
    /\ callop' = [callop EXCEPT ![c] = op]
    /\ callpayload' = [callpayload EXCEPT ![c] = payload]
    /\ call_after_shutdown' =
           [call_after_shutdown EXCEPT ![c] = \E s \in Shutdowns : shutpc[s] = "done"]
    /\ pendings' = register_request(pendings, c, op)
    /\ IF payload
       THEN /\ callpc' = [callpc EXCEPT ![c] = "registered"]
            /\ UNCHANGED callresult
       ELSE /\ callresult' = [callresult EXCEPT ![c] = "MissingRequestPayload"]
            /\ callpc' = [callpc EXCEPT ![c] = "done"]
    /\ UNCHANGED <<flagVars, connectVars, streamVars, filterVars, notifierVars, channelVars, completion, notifyVars, response_of,
                   at_shutdown, receiverVars, timeoutVars, shutpc>>

\* call() putting its request on the send queue before it registers the
\* pending: the registration is left for the step after.
call_begin_send_first(c, op, payload) ==
    /\ connect_pc = "ready"
    /\ callpc[c] = "idle"
    /\ callop' = [callop EXCEPT ![c] = op]
    /\ callpayload' = [callpayload EXCEPT ![c] = payload]
    /\ call_after_shutdown' =
           [call_after_shutdown EXCEPT ![c] = \E s \in Shutdowns : shutpc[s] = "done"]
    /\ IF payload
       THEN /\ request_stream' = Append(request_stream,
                                         [call |-> c, op |-> op, id |-> request_id(c)])
            /\ callpc' = [callpc EXCEPT ![c] = "registered"]
            /\ UNCHANGED callresult
       ELSE /\ callresult' = [callresult EXCEPT ![c] = "MissingRequestPayload"]
            /\ callpc' = [callpc EXCEPT ![c] = "done"]
            /\ UNCHANGED request_stream
    /\ UNCHANGED <<flagVars, connectVars, streamVars, filterVars, notifierVars,
                   request_recv_open, resolverVars, notifyVars, response_of, at_shutdown,
                   receiverVars, timeoutVars, shutpc>>

\* call(), up to its first suspension point: a request without payload is
\* refused, any other is registered with the resolver.
call_begin(c, op, payload) ==
    /\ connect_pc = "ready"
    /\ callpc[c] = "idle"
    /\ callop' = [callop EXCEPT ![c] = op]
    /\ callpayload' = [callpayload EXCEPT ![c] = payload]
    /\ call_after_shutdown' =
           [call_after_shutdown EXCEPT ![c] = \E s \in Shutdowns : shutpc[s] = "done"]
    /\ IF payload
       THEN /\ pendings' = register_request(pendings, c, op)
            /\ callpc' = [callpc EXCEPT ![c] = "registered"]
            /\ UNCHANGED callresult
       ELSE /\ callresult' = [callresult EXCEPT ![c] = "MissingRequestPayload"]
            /\ callpc' = [callpc EXCEPT ![c] = "done"]
            /\ UNCHANGED pendings
    /\ UNCHANGED <<flagVars, connectVars, streamVars, filterVars, notifierVars, channelVars, completion, notifyVars, response_of, at_shutdown,
                   receiverVars, timeoutVars, shutpc>>

\* request_sender.send(request).await: the request enters the channel, and
\* the call fails when the receiver half is gone. The pending registered
\* before is left where it is. (The channel holds 16 requests, more than the
\* calls of the model, so that a send never waits for room.)
call_send(c) ==
    /\ callpc[c] = "registered"
    /\ IF request_recv_open
       THEN /\ request_stream' = Append(request_stream,
                                         [call |-> c, op |-> callop[c], id |-> request_id(c)])
            /\ callpc' = [callpc EXCEPT ![c] = "waiting"]
            /\ UNCHANGED callresult
       ELSE /\ callresult' = [callresult EXCEPT ![c] = "ChannelRecvError"]
            /\ callpc' = [callpc EXCEPT ![c] = "done"]
            /\ UNCHANGED request_stream
    /\ UNCHANGED <<flagVars, connectVars, streamVars, filterVars, notifierVars, request_recv_open, resolverVars, notifyVars, callop, callpayload,
                   response_of, call_after_shutdown, at_shutdown, receiverVars,
                   timeoutVars, shutpc>>

\* receiver.await: the call returns what the resolver sent to its one-shot.
call_return(c) ==
    /\ callpc[c] = "waiting"
    /\ completion[c] # "none"
    /\ callresult' = [callresult EXCEPT ![c] = completion[c]]
    /\ callpc' = [callpc EXCEPT ![c] = "done"]
    /\ UNCHANGED <<flagVars, connectVars, streamVars, filterVars, notifierVars, channelVars, resolverVars, notifyVars, callop, callpayload, response_of,
                   call_after_shutdown, at_shutdown, receiverVars, timeoutVars, shutpc>>

(* ----------------------------- transport ------------------------------ *)

\* The transport drops the receiver half of the request channel: the
\* connection is lost, or the request stream is over.
transport_close ==
    /\ request_recv_open
    /\ request_recv_open' = FALSE
    /\ UNCHANGED <<flagVars, connectVars, streamVars, filterVars, notifierVars, request_stream, resolverVars, notifyVars, callVars, at_shutdown,
                   receiverVars, timeoutVars, shutpc>>

(* ----------------------- response receiver task ----------------------- *)

\* The response the server sends for request q: it echoes the id when it
\* handles message ids.
response_to(q) ==
    [is_notification |-> FALSE, payload |-> TRUE, op |-> q.op,
     id |-> IF handle_message_id THEN q.id ELSE 0, req |-> q.call,
     convertible |-> FALSE, event |-> "none"]

\* Resolver::handle_response: the first matching pending is removed and its
\* one-shot is sent the response; a response that matches none is dropped.
resolver_handle_response(r) ==
    LET i == match_index(pendings, r)
    IN IF i = 0
       THEN UNCHANGED <<pendings, completion, response_of>>
       ELSE /\ pendings' = RemoveAt(pendings, i)
            /\ completion' = [completion EXCEPT ![pendings[i].call] = "Response"]
            /\ response_of' = [response_of EXCEPT ![pendings[i].call] = r.req]

\* notify_sender.try_send: the notification enters the channel when it is
\* open and has room; the error is ignored otherwise.
NotifyChannelCapacity == 2

\* notify_sender putting the notification in front of those waiting.
notify_try_send_front(event) ==
    IF notify_open /\ Len(notify_queue) < NotifyChannelCapacity
    THEN notify_queue' = <<event>> \o notify_queue
    ELSE UNCHANGED notify_queue

\* notify_sender.send(..).await in the place of try_send: the receiver task
\* waits until the channel has room.
notify_send_blocking(event) ==
    /\ notify_open
    /\ Len(notify_queue) < NotifyChannelCapacity
    /\ notify_queue' = Append(notify_queue, event)

notify_try_send(event) ==
    IF notify_open /\ Len(notify_queue) < NotifyChannelCapacity
    THEN notify_queue' = Append(notify_queue, event)
    ELSE UNCHANGED notify_queue

\* handle_response without its test of the payload: whatever is no
\* notification goes to the resolver.
handle_response_without_payload_test(r) ==
    IF r.is_notification
    THEN /\ IF r.convertible THEN notify_try_send(r.event) ELSE UNCHANGED notify_queue
         /\ UNCHANGED <<pendings, completion, response_of>>
    ELSE /\ resolver_handle_response(r)
         /\ UNCHANGED notify_queue

\* Inner::handle_response
handle_response(r) ==
    IF r.is_notification
    THEN /\ IF r.convertible THEN notify_try_send(r.event) ELSE UNCHANGED notify_queue
         /\ UNCHANGED <<pendings, completion, response_of>>
    ELSE IF r.payload
         THEN /\ resolver_handle_response(r)
              /\ UNCHANGED notify_queue
         ELSE UNCHANGED <<pendings, completion, response_of, notify_queue>>

\* stream.message() yields the server's response to the i-th request it holds.
receive_response(i) ==
    /\ receiver_pc = "loop"
    /\ i \in 1..Len(request_stream)
    /\ request_stream' = RemoveAt(request_stream, i)
    /\ handle_response(response_to(request_stream[i]))
    /\ UNCHANGED <<flagVars, connectVars, streamVars, filterVars, notifierVars, request_recv_open, notify_open, callpc, callop,
                   callpayload, callresult, call_after_shutdown, at_shutdown,
                   receiverVars, timeoutVars, shutpc>>

(* ------------------------- the inbound stream ------------------------ *)

\* Number of messages the server may have sent that are not read yet.
MaxInbound == 2

\* Number of notifications the server may send.
MaxNotifications == 3

\* A response without payload to request q.
empty_response_to(q) == [response_to(q) EXCEPT !.payload = FALSE, !.op = "none"]

\* The n-th notification of the server, of event type e; convertible tells
\* whether Notification::try_from accepts it.
notification_message(e, n, convertible) ==
    [is_notification |-> TRUE, payload |-> TRUE, op |-> e, id |-> 0, req |-> 0,
     convertible |-> convertible, event |-> [type |-> e, seq |-> n]]

\* The server answers the i-th request it holds, with or without a payload.
server_respond(i, with_payload) ==
    /\ i \in 1..Len(request_stream)
    /\ Len(inbound) < MaxInbound
    /\ inbound' = Append(inbound, IF with_payload THEN response_to(request_stream[i])
                                                  ELSE empty_response_to(request_stream[i]))
    /\ request_stream' = RemoveAt(request_stream, i)
    /\ UNCHANGED <<flagVars, connectVars, filterVars, notifierVars, request_recv_open,
                   notified, collected, logged_errors, resolverVars, notifyVars, callVars, at_shutdown,
                   receiverVars, timeoutVars, shutpc>>

\* The server sends a notification.
server_notify(e, convertible) ==
    /\ notified < MaxNotifications
    /\ Len(inbound) < MaxInbound
    /\ notified' = notified + 1
    /\ inbound' = Append(inbound, notification_message(e, notified + 1, convertible))
    /\ UNCHANGED <<flagVars, connectVars, filterVars, notifierVars, channelVars, collected,
                   logged_errors, resolverVars, notifyVars, callVars, at_shutdown, receiverVars,
                   timeoutVars, shutpc>>

\* stream.message() yields the oldest message the server has sent.
receive_message ==
    /\ receiver_pc = "loop"
    /\ inbound # <<>>
    /\ inbound' = Tail(inbound)
    /\ handle_response(Head(inbound))
    /\ UNCHANGED <<flagVars, connectVars, filterVars, notifierVars, channelVars, notified,
                   collected, logged_errors, notify_open, callpc, callop, callpayload, callresult,
                   call_after_shutdown, at_shutdown, receiverVars, timeoutVars, shutpc>>

\* The collector takes the oldest notification from the channel.
collector_receive ==
    /\ notify_open
    /\ notify_queue # <<>>
    /\ collected' = Append(collected, Head(notify_queue))
    /\ notify_queue' = Tail(notify_queue)
    /\ UNCHANGED <<flagVars, connectVars, filterVars, notifierVars, channelVars, inbound,
                   notified, logged_errors, notify_open, resolverVars, callVars, at_shutdown,
                   receiverVars, timeoutVars, shutpc>>

\* The collector drops its receiver: the channel is closed.
collector_drop ==
    /\ notify_open
    /\ notify_open' = FALSE
    /\ UNCHANGED <<flagVars, connectVars, filterVars, notifierVars, channelVars, streamVars,
                   notify_queue, resolverVars, callVars, at_shutdown, receiverVars,
                   timeoutVars, shutpc>>

\* The loop of the receiver task is left: the flag is cleared.
receiver_leave ==
    /\ receiver_is_running' = FALSE
    /\ receiver_pc' = "stopping"
    /\ UNCHANGED <<flagVars, connectVars, streamVars, filterVars, notifierVars, channelVars, resolverVars, notifyVars, callVars, at_shutdown,
                   receiver_request, receiver_response, timeoutVars, shutpc>>

\* select!: the shutdown request listener is ready.
receiver_shutdown_seen ==
    /\ receiver_pc = "loop"
    /\ receiver_request
    /\ receiver_leave

\* The receiver task returning on Ok(None) instead of breaking out of its
\* loop: the flag stays set and the response is not triggered.
receiver_stream_closed_return ==
    /\ receiver_pc = "loop"
    /\ receiver_pc' = "ended"
    /\ UNCHANGED <<flagVars, connectVars, streamVars, filterVars, notifierVars, channelVars,
                   resolverVars, notifyVars, callVars, at_shutdown, receiver_is_running,
                   receiver_request, receiver_response, timeoutVars, shutpc>>

\* stream.message() yields Ok(None): the server closed the stream.
receiver_stream_closed ==
    /\ receiver_pc = "loop"
    /\ receiver_leave

\* The receiver task ending without triggering the response of its duplex trigger.
receiver_terminated_silent ==
    /\ receiver_pc = "stopping"
    /\ receiver_pc' = "ended"
    /\ UNCHANGED <<flagVars, connectVars, streamVars, filterVars, notifierVars, channelVars, resolverVars, notifyVars, callVars,
                   at_shutdown, receiver_is_running, receiver_request, receiver_response,
                   timeoutVars, shutpc>>

\* After the loop: receiver_shutdown.response.trigger.trigger()
receiver_terminated ==
    /\ receiver_pc = "stopping"
    /\ receiver_response' = TRUE
    /\ receiver_pc' = "ended"
    /\ UNCHANGED <<flagVars, connectVars, streamVars, filterVars, notifierVars, channelVars, resolverVars, notifyVars, callVars, at_shutdown,
                   receiver_is_running, receiver_request, timeoutVars, shutpc>>

(* --------------------- what stream.message() yields ------------------- *)

\* Number of errors the stream may yield.
MaxStreamErrors == 1

\* stream.message() yields Err(status).
stream_error == [error |-> TRUE]

\* stream.message() yields Ok(None).
end_of_stream == [end |-> TRUE]

\* stream.message() yields Ok(Some(m)).
is_message(m) == m # stream_error /\ m # end_of_stream

\* The server has not closed the stream.
stream_open == \A i \in 1..Len(inbound) : inbound[i] # end_of_stream

\* Number of errors the stream still holds.
pending_errors == Cardinality({i \in 1..Len(inbound) : inbound[i] = stream_error})

\* The server answers a request while the stream is open.
server_answer(i, with_payload) ==
    /\ stream_open
    /\ server_respond(i, with_payload)

\* The stream fails once: the next poll yields an error.
server_error ==
    /\ stream_open
    /\ Len(inbound) < MaxInbound
    /\ logged_errors + pending_errors < MaxStreamErrors
    /\ inbound' = Append(inbound, stream_error)
    /\ UNCHANGED <<flagVars, connectVars, filterVars, notifierVars, sessionVars,
                   notified, collected, logged_errors>>

\* The server closes the stream: every later poll yields Ok(None).
server_close ==
    /\ stream_open
    /\ Len(inbound) < MaxInbound
    /\ inbound' = Append(inbound, end_of_stream)
    /\ UNCHANGED <<flagVars, connectVars, filterVars, notifierVars, sessionVars,
                   notified, collected, logged_errors>>

\* match message: Ok(Some(response)) => handle_response(response)
receiver_message_read ==
    /\ inbound # <<>>
    /\ is_message(Head(inbound))
    /\ receive_message

\* The receiver task breaking out of its loop on Err(err).
receiver_stream_error_break ==
    /\ receiver_pc = "loop"
    /\ inbound # <<>>
    /\ Head(inbound) = stream_error
    /\ inbound' = Tail(inbound)
    /\ logged_errors' = logged_errors + 1
    /\ receiver_is_running' = FALSE
    /\ receiver_pc' = "stopping"
    /\ UNCHANGED <<flagVars, connectVars, filterVars, notifierVars, channelVars,
                   resolverVars, notifyVars, callVars, at_shutdown, receiver_request,
                   receiver_response, timeoutVars, shutpc, notified, collected>>

\* match message: Err(err) => trace!(..): the error is logged and the task
\* goes on to the next iteration of its loop.
receiver_stream_error ==
    /\ receiver_pc = "loop"
    /\ inbound # <<>>
    /\ Head(inbound) = stream_error
    /\ inbound' = Tail(inbound)
    /\ logged_errors' = logged_errors + 1
    /\ UNCHANGED <<flagVars, connectVars, filterVars, notifierVars, sessionVars,
                   notified, collected>>

\* match message: Ok(None) => break
receiver_end_of_stream ==
    /\ inbound # <<>>
    /\ Head(inbound) = end_of_stream
    /\ receiver_stream_closed

(* ----------------------- request timeout monitor ---------------------- *)

\* The one-shots of the pendings remove_expired_requests removes are sent Timeout.
timed_out(P, done, timeout) ==
    [c \in Calls |->
        IF \E i \in expired(P, timeout) : P[i].call = c THEN "Timeout" ELSE done[c]]

\* The monitor passing its own interval, not timeout_duration, as the timeout.
timeout_monitor_tick_interval ==
    /\ timeout_pc = "loop"
    /\ timer >= TIMEOUT_MONITORING_INTERVAL
    /\ pendings' = remove_expired_requests(pendings, TIMEOUT_MONITORING_INTERVAL)
    /\ completion' = timed_out(pendings, completion, TIMEOUT_MONITORING_INTERVAL)
    /\ timer' = 0
    /\ UNCHANGED <<flagVars, connectVars, streamVars, filterVars, notifierVars, channelVars, notifyVars, callVars, at_shutdown,
                   receiverVars, timeout_is_running, timeout_request, timeout_response,
                   timeout_pc, shutpc>>

\* The monitor completing the expired pendings with Timeout and leaving
\* them in the resolver.
timeout_monitor_tick_keeps_pendings ==
    /\ timeout_pc = "loop"
    /\ timer >= TIMEOUT_MONITORING_INTERVAL
    /\ completion' = timed_out(pendings, completion, REQUEST_TIMEOUT_DURATION)
    /\ timer' = 0
    /\ UNCHANGED <<flagVars, connectVars, streamVars, filterVars, notifierVars, channelVars,
                   pendings, notifyVars, callVars, at_shutdown, receiverVars,
                   timeout_is_running, timeout_request, timeout_response, timeout_pc, shutpc>>

\* select!: the delay of timeout_timer_interval has elapsed.
timeout_monitor_tick ==
    /\ timeout_pc = "loop"
    /\ timer >= TIMEOUT_MONITORING_INTERVAL
    /\ pendings' = remove_expired_requests(pendings, REQUEST_TIMEOUT_DURATION)
    /\ completion' = timed_out(pendings, completion, REQUEST_TIMEOUT_DURATION)
    /\ timer' = 0
    /\ UNCHANGED <<flagVars, connectVars, streamVars, filterVars, notifierVars, channelVars, notifyVars, callVars, at_shutdown, receiverVars,
                   timeout_is_running, timeout_request, timeout_response, timeout_pc, shutpc>>

\* select!: the shutdown request listener is ready; the loop is left and the
\* flag is cleared.
timeout_shutdown_seen ==
    /\ timeout_pc = "loop"
    /\ timeout_request
    /\ timeout_is_running' = FALSE
    /\ timeout_pc' = "stopping"
    /\ UNCHANGED <<flagVars, connectVars, streamVars, filterVars, notifierVars, channelVars, resolverVars, notifyVars, callVars, at_shutdown,
                   receiverVars, timeout_request, timeout_response, timer, shutpc>>

\* After the loop: timeout_shutdown.response.trigger.trigger()
timeout_terminated ==
    /\ timeout_pc = "stopping"
    /\ timeout_response' = TRUE
    /\ timeout_pc' = "ended"
    /\ UNCHANGED <<flagVars, connectVars, streamVars, filterVars, notifierVars, channelVars, resolverVars, notifyVars, callVars, at_shutdown,
                   receiverVars, timeout_is_running, timeout_request, timer, shutpc>>

(* -------------------------------- time -------------------------------- *)

\* A pending's age, which only matters up to the timeout.
older(p) == [p EXCEPT !.age = Min(p.age + TimeStep, REQUEST_TIMEOUT_DURATION)]

\* TimeStep milliseconds pass: every pending is that much older, and so is the
\* sleep of the monitor.
time_passes ==
    /\ pendings' = [i \in 1..Len(pendings) |-> older(pendings[i])]
    /\ timer' = IF timeout_pc = "loop"
                THEN Min(timer + TimeStep, TIMEOUT_MONITORING_INTERVAL)
                ELSE timer
    /\ UNCHANGED <<flagVars, connectVars, streamVars, filterVars, notifierVars, channelVars, completion, notifyVars, callVars, at_shutdown,
                   receiverVars, timeout_is_running, timeout_request, timeout_response,
                   timeout_pc, shutpc>>

(* --------------------------- Inner::shutdown -------------------------- *)

\* shutdown() up to its first suspension point, in stop_timeout_monitor: the
\* request is triggered when the monitor is flagged as running.
shutdown_begin(s) ==
    /\ connect_pc = "ready"
    /\ shutpc[s] = "idle"
    /\ at_shutdown' = at_shutdown \cup PendingCalls(pendings)
    /\ IF timeout_is_running
       THEN /\ timeout_request' = TRUE
            /\ shutpc' = [shutpc EXCEPT ![s] = "await_timeout"]
       ELSE /\ shutpc' = [shutpc EXCEPT ![s] = "stop_receiver"]
            /\ UNCHANGED timeout_request
    /\ UNCHANGED <<flagVars, connectVars, streamVars, filterVars, notifierVars, channelVars, resolverVars, notifyVars, callVars, receiverVars,
                   timeout_is_running, timeout_response, timeout_pc, timer>>

\* timeout_shutdown.response.listener.await returns.
shutdown_timeout_stopped(s) ==
    /\ shutpc[s] = "await_timeout"
    /\ timeout_response
    /\ shutpc' = [shutpc EXCEPT ![s] = "stop_receiver"]
    /\ UNCHANGED <<flagVars, connectVars, streamVars, filterVars, notifierVars, channelVars, resolverVars, notifyVars, callVars, at_shutdown,
                   receiverVars, timeoutVars>>

\* stop_response_receiver_task, up to its suspension point.
shutdown_stop_receiver(s) ==
    /\ shutpc[s] = "stop_receiver"
    /\ IF receiver_is_running
       THEN /\ receiver_request' = TRUE
            /\ shutpc' = [shutpc EXCEPT ![s] = "await_receiver"]
       ELSE /\ shutpc' = [shutpc EXCEPT ![s] = "done"]
            /\ UNCHANGED receiver_request
    /\ UNCHANGED <<flagVars, connectVars, streamVars, filterVars, notifierVars, channelVars, resolverVars, notifyVars, callVars, at_shutdown,
                   receiver_is_running, receiver_response, receiver_pc, timeoutVars>>

\* receiver_shutdown.response.listener.await returns, and shutdown() with it.
shutdown_receiver_stopped(s) ==
    /\ shutpc[s] = "await_receiver"
    /\ receiver_response
    /\ shutpc' = [shutpc EXCEPT ![s] = "done"]
    /\ UNCHANGED <<flagVars, connectVars, streamVars, filterVars, notifierVars, channelVars, resolverVars, notifyVars, callVars, at_shutdown,
                   receiverVars, timeoutVars>>

(* ------------------- SubscriptionManager for Inner -------------------- *)

\* Inner::start_notify testing handle_stop_notify as Inner::stop_notify does.
inner_start_notify_guarded(e) ==
    IF handle_stop_notify THEN <<[event |-> e, command |-> "Start"]>> ELSE <<>>

\* Inner::start_notify: a Start command for the event type is put on the
\* wire (by a call), whatever the server advertised.
inner_start_notify(e) == <<[event |-> e, command |-> "Start"]>>

\* Inner::stop_notify ignoring every request to stop.
inner_stop_notify_ignored(e) == <<>>

\* Inner::stop_notify: a Stop command is put on the wire when the server
\* advertised has_notify_command, and nothing is done otherwise.
inner_stop_notify(e) ==
    IF handle_stop_notify THEN <<[event |-> e, command |-> "Stop"]>> ELSE <<>>

\* The wire subscriptions once the commands cmds have been sent in order.
RECURSIVE after_commands(_, _)
after_commands(subscribed, cmds) ==
    IF cmds = <<>> THEN subscribed
    ELSE after_commands([subscribed EXCEPT ![Head(cmds).event] = (Head(cmds).command = "Start")],
                        Tail(cmds))

(* ------------------------------ Notifier ------------------------------ *)

\* The global subscription count of an event type: its active listeners.
Count(e) == Cardinality({l \in listeners : active[l][e]})

\* Notifier::register_new_listener: the next id, with no active subscription.
notifier_register_new_listener ==
    /\ listeners' = listeners \cup {next_listener_id}
    /\ next_listener_id' = next_listener_id + 1
    /\ UNCHANGED <<active, wire_subscribed>>
    /\ issued' = <<>>

\* Notifier::start_notify: the listener's subscription becomes active, and
\* the subscription manager is asked to start when it is the first active one.
notifier_start_notify(id, e) ==
    LET cmds == IF id \in listeners /\ ~active[id][e] /\ Count(e) = 0
                THEN inner_start_notify(e) ELSE <<>>
    IN /\ active' = IF id \in listeners THEN [active EXCEPT ![id][e] = TRUE] ELSE active
       /\ issued' = cmds
       /\ wire_subscribed' = after_commands(wire_subscribed, cmds)
       /\ UNCHANGED <<listeners, next_listener_id>>

\* Notifier::stop_notify: the listener's subscription becomes inactive, and
\* the subscription manager is asked to stop when it was the last active one.
notifier_stop_notify(id, e) ==
    LET cmds == IF id \in listeners /\ active[id][e] /\ Count(e) = 1
                THEN inner_stop_notify(e) ELSE <<>>
    IN /\ active' = IF id \in listeners THEN [active EXCEPT ![id][e] = FALSE] ELSE active
       /\ issued' = cmds
       /\ wire_subscribed' = after_commands(wire_subscribed, cmds)
       /\ UNCHANGED <<listeners, next_listener_id>>

\* The commands that stop, one event type after the other, the subscriptions
\* of which listener id holds the last active one.
RECURSIVE stop_all(_, _)
stop_all(id, events) ==
    IF events = {} THEN <<>>
    ELSE LET e == CHOOSE x \in events : TRUE
         IN (IF active[id][e] /\ Count(e) = 1 THEN inner_stop_notify(e) ELSE <<>>)
            \o stop_all(id, events \ {e})

\* Notifier::unregister_listener: every subscription of the listener is
\* stopped and the listener is dropped.
notifier_unregister_listener(id) ==
    LET cmds == IF id \in listeners THEN stop_all(id, EventTypes) ELSE <<>>
    IN /\ listeners' = listeners \ {id}
       /\ active' = IF id \in listeners
                    THEN [active EXCEPT ![id] = [e \in EventTypes |-> FALSE]]
                    ELSE active
       /\ issued' = cmds
       /\ wire_subscribed' = after_commands(wire_subscribed, cmds)
       /\ UNCHANGED next_listener_id

(* ----------------------- RpcApi for GrpcClient ------------------------ *)

\* GrpcClient::register_new_listener
register_new_listener ==
    /\ next_listener_id <= MaxListeners
    /\ notifier_register_new_listener
    /\ last_op' = [name |-> "register_new_listener", id |-> next_listener_id, event |-> "none"]
    /\ record_before' = FALSE
    /\ last_result' = "Ok"
    /\ UNCHANGED <<flagVars, connectVars, sessionVars, streamVars, filterVars>>

\* GrpcClient::unregister_listener
unregister_listener(id) ==
    /\ notifier_unregister_listener(id)
    /\ last_op' = [name |-> "unregister_listener", id |-> id, event |-> "none"]
    /\ record_before' = FALSE
    /\ last_result' = "Ok"
    /\ UNCHANGED <<flagVars, connectVars, sessionVars, streamVars, filterVars>>

\* GrpcClient::start_notify
start_notify(id, e) ==
    /\ notifier_start_notify(id, e)
    /\ last_op' = [name |-> "start_notify", id |-> id, event |-> e]
    /\ record_before' = active[id][e]
    /\ last_result' = "Ok"
    /\ UNCHANGED <<flagVars, connectVars, sessionVars, streamVars, filterVars>>

\* GrpcClient::stop_notify without its test of handle_stop_notify.
stop_notify_unguarded(id, e) ==
    /\ notifier_stop_notify(id, e)
    /\ last_result' = "Ok"
    /\ last_op' = [name |-> "stop_notify", id |-> id, event |-> e]
    /\ record_before' = active[id][e]
    /\ UNCHANGED <<flagVars, connectVars, sessionVars, streamVars, filterVars>>

\* GrpcClient::stop_notify: refused when the server did not advertise
\* has_notify_command, handed to the Notifier otherwise.
stop_notify(id, e) ==
    /\ IF handle_stop_notify
       THEN /\ notifier_stop_notify(id, e)
            /\ last_result' = "Ok"
       ELSE /\ last_result' = "UnsupportedFeature"
            /\ issued' = <<>>
            /\ UNCHANGED <<listeners, next_listener_id, active, wire_subscribed>>
    /\ last_op' = [name |-> "stop_notify", id |-> id, event |-> e]
    /\ record_before' = active[id][e]
    /\ UNCHANGED <<flagVars, connectVars, sessionVars, streamVars, filterVars>>

(* ------------------ NotificationTrait for Notification ---------------- *)

\* Longest list of hashes or transaction ids a notification carries.
MaxListLen == 2

Hashes == {"h1", "h2"}

TransactionIds == {"t1", "t2"}

\* The lists over S of at most MaxListLen elements.
Lists(S) == UNION {[1..n -> S] : n \in 0..MaxListLen}

\* The notifications the filters are applied to: every chain-changed one
\* over the lists above, and one of another event type.
Notifications ==
    [event : {"VirtualSelectedParentChainChanged"},
     added_chain_block_hashes : Lists(Hashes),
     removed_chain_block_hashes : Lists(Hashes),
     accepted_transaction_ids : Lists(TransactionIds)]
    \cup {[event |-> "BlockAdded", block |-> "b1"]}

\* VirtualSelectedParentChainChangedSubscription
Subscriptions == [active : BOOLEAN, include_accepted_transaction_ids : BOOLEAN]

Some(x) == [some |-> TRUE, value |-> x]

None == [some |-> FALSE]

\* The chain-changed filter never clearing the accepted transaction ids.
apply_virtual_selected_parent_chain_changed_subscription_as_is(self, subscription) ==
    IF subscription.active THEN Some(self) ELSE None

\* Notification::apply_virtual_selected_parent_chain_changed_subscription
apply_virtual_selected_parent_chain_changed_subscription(self, subscription) ==
    IF subscription.active
    THEN IF /\ self.event = "VirtualSelectedParentChainChanged"
            /\ ~subscription.include_accepted_transaction_ids
            /\ self.accepted_transaction_ids # <<>>
         THEN Some([event |-> "VirtualSelectedParentChainChanged",
                    removed_chain_block_hashes |-> self.removed_chain_block_hashes,
                    added_chain_block_hashes |-> self.added_chain_block_hashes,
                    accepted_transaction_ids |-> <<>>])
         ELSE Some(self)
    ELSE None

\* The chain-changed filter is applied to the notification at hand.
apply_chain_changed_filter ==
    /\ filter_result = Unapplied
    /\ filter_result' = apply_virtual_selected_parent_chain_changed_subscription(
                            filter_notification, filter_subscription)
    /\ UNCHANGED <<flagVars, connectVars, sessionVars, streamVars, notifierVars,
                   filter_notification, filter_subscription>>

\* OverallSubscription
OverallSubscriptions == [active : BOOLEAN]

Addresses == {"a1"}

\* UtxosChangedSubscription
UtxosChangedSubscriptions == [active : BOOLEAN, addresses : SUBSET Addresses]

\* The notifications above and a UTXO-changed one.
AllNotifications ==
    Notifications \cup {[event |-> "UtxosChanged", accumulated_utxo_diff |-> "d1"]}

\* The overall filter passing every notification.
apply_overall_subscription_always(self, subscription) == Some(self)

\* Notification::apply_overall_subscription
apply_overall_subscription(self, subscription) ==
    IF subscription.active THEN Some(self) ELSE None

\* Notification::apply_utxos_changed_subscription
apply_utxos_changed_subscription(self, subscription) == Some(self)

\* Each filter is applied to the notification at hand when the subscription
\* at hand is of the filter's type.
apply_overall_filter ==
    /\ filter_result = Unapplied
    /\ filter_subscription \in OverallSubscriptions
    /\ filter_result' = apply_overall_subscription(filter_notification, filter_subscription)
    /\ UNCHANGED <<flagVars, connectVars, sessionVars, streamVars, notifierVars,
                   filter_notification, filter_subscription>>

apply_chain_changed_filter_of_type ==
    /\ filter_subscription \in Subscriptions
    /\ apply_chain_changed_filter

apply_utxos_changed_filter ==
    /\ filter_result = Unapplied
    /\ filter_subscription \in UtxosChangedSubscriptions
    /\ filter_result' = apply_utxos_changed_subscription(filter_notification, filter_subscription)
    /\ UNCHANGED <<flagVars, connectVars, sessionVars, streamVars, notifierVars,
                   filter_notification, filter_subscription>>

(* --------------------------- specifications -------------------------- *)

\* The callers' steps and the server's responses, for the calls 1..n.
CallSteps(n) ==
    \/ \E c \in 1..n, op \in Ops, payload \in BOOLEAN : call_begin(c, op, payload)
    \/ \E c \in 1..n : call_send(c)
    \/ \E c \in 1..n : call_return(c)
    \/ \E i \in 1..n : receive_response(i)

\* The steps of shutdown() and of the tasks it stops, for the invocations 1..n.
ShutdownSteps(n) ==
    \/ \E s \in 1..n : shutdown_begin(s)
    \/ \E s \in 1..n : shutdown_timeout_stopped(s)
    \/ \E s \in 1..n : shutdown_stop_receiver(s)
    \/ \E s \in 1..n : shutdown_receiver_stopped(s)
    \/ receiver_shutdown_seen
    \/ timeout_shutdown_seen
    \/ timeout_terminated

\* What happens whether or not shutdown() is invoked.
SessionSteps ==
    \/ transport_close
    \/ receiver_stream_closed
    \/ receiver_terminated
    \/ timeout_monitor_tick
    \/ time_passes

\* The session: concurrent calls and one shutdown().
Next == CallSteps(MaxCalls) \/ SessionSteps \/ ShutdownSteps(SpecShutdowns)

Spec == Init /\ [][Next]_vars

\* What the executor guarantees: a task or a caller that can take its next
\* step takes it, and time passes. Nothing obliges a caller to call, the
\* owner to shut down, or the server to answer or to close the stream.
Fairness(calls, shutdowns) ==
    /\ \A c \in 1..calls : WF_vars(call_send(c)) /\ WF_vars(call_return(c))
    /\ \A s \in 1..shutdowns :
          /\ WF_vars(shutdown_timeout_stopped(s))
          /\ WF_vars(shutdown_stop_receiver(s))
          /\ WF_vars(shutdown_receiver_stopped(s))
    /\ WF_vars(receiver_shutdown_seen)
    /\ WF_vars(receiver_terminated)
    /\ WF_vars(timeout_monitor_tick)
    /\ WF_vars(timeout_shutdown_seen)
    /\ WF_vars(timeout_terminated)
    /\ WF_vars(time_passes)

\* A session nobody shuts down, under fair scheduling.
NextTimeout == CallSteps(MaxCalls) \/ SessionSteps

TimeoutSpec == Init /\ [][NextTimeout]_vars /\ Fairness(MaxCalls, 0)

\* Concurrent shutdown() invocations with a call in flight, under fair scheduling.
NextShutdown == CallSteps(ShutdownSpecCalls) \/ SessionSteps \/ ShutdownSteps(MaxShutdowns)

ShutdownSpec == Init /\ [][NextShutdown]_vars /\ Fairness(ShutdownSpecCalls, MaxShutdowns)

\* The notification API of the facade, on a session that stays connected.
NextNotify ==
    \/ register_new_listener
    \/ \E id \in ListenerIds : unregister_listener(id)
    \/ \E id \in ListenerIds, e \in EventTypes : start_notify(id, e)
    \/ \E id \in ListenerIds, e \in EventTypes : stop_notify(id, e)

NotifySpec == Init /\ [][NextNotify]_vars

\* Number of call() invocations in ReceiveSpec.
ReceiveSpecCalls == 1

\* The callers' steps alone, for the calls 1..n.
CallerSteps(n) ==
    \/ \E c \in 1..n, op \in Ops, payload \in BOOLEAN : call_begin(c, op, payload)
    \/ \E c \in 1..n : call_send(c)
    \/ \E c \in 1..n : call_return(c)

\* The receive path: the server answers requests and sends notifications,
\* the receiver task reads them in the order they were sent, the collector
\* takes notifications from the channel or drops it.
NextReceive ==
    \/ CallerSteps(ReceiveSpecCalls)
    \/ \E i \in 1..ReceiveSpecCalls, with_payload \in BOOLEAN : server_respond(i, with_payload)
    \/ \E e \in EventTypes, convertible \in BOOLEAN : server_notify(e, convertible)
    \/ receive_message
    \/ collector_receive
    \/ collector_drop
    \/ timeout_monitor_tick
    \/ time_passes

ReceiveSpec == Init /\ [][NextReceive]_vars

\* Number of call() invocations in StreamSpec.
StreamSpecCalls == 1

\* The receiver task on a stream that yields responses, an error and the
\* end of the stream, with a caller and a shutdown().
NextStream ==
    \/ CallerSteps(StreamSpecCalls)
    \/ \E i \in 1..StreamSpecCalls, with_payload \in BOOLEAN : server_answer(i, with_payload)
    \/ server_error
    \/ server_close
    \/ receiver_message_read
    \/ receiver_stream_error
    \/ receiver_end_of_stream
    \/ receiver_terminated
    \/ ShutdownSteps(SpecShutdowns)
    \/ timeout_monitor_tick
    \/ time_passes

StreamSpec == Init /\ [][NextStream]_vars

\* Number of call() invocations in ConnectSpec.
ConnectSpecCalls == 1

ConnectSteps ==
    \/ \E ok \in BOOLEAN : connect_open(ok)
    \/ \E m \in FirstMessages : connect_first_message(m)
    \/ connect_spawn_request_timeout_monitor
    \/ connect_spawn_response_receiver_task

\* A session from the entry of Inner::connect on.
NextConnect == ConnectSteps \/ CallSteps(ConnectSpecCalls) \/ SessionSteps

ConnectInit == NotConnectedInit /\ IdleInit /\ NoFilter

ConnectSpec == ConnectInit /\ [][NextConnect]_vars

\* The filters of a listener's subscription, applied to any notification.
FilterInit ==
    /\ ConnectedInit
    /\ IdleInit
    /\ filter_notification \in Notifications
    /\ filter_subscription \in Subscriptions
    /\ filter_result = Unapplied

NextFilter == apply_chain_changed_filter

FilterSpec == FilterInit /\ [][NextFilter]_vars

\* The three filters, each applied to the subscriptions of its type and to
\* any notification.
AllFiltersInit ==
    /\ ConnectedInit
    /\ IdleInit
    /\ filter_notification \in AllNotifications
    /\ filter_subscription \in
           OverallSubscriptions \cup Subscriptions \cup UtxosChangedSubscriptions
    /\ filter_result = Unapplied

NextAllFilters ==
    \/ apply_overall_filter
    \/ apply_chain_changed_filter_of_type
    \/ apply_utxos_changed_filter

AllFiltersSpec == AllFiltersInit /\ [][NextAllFilters]_vars

(* ------------------------------- claims ------------------------------- *)

\* C1: every call that is outstanding (its pending registered, not yet
\* completed) when shutdown() is invoked returns the Cancelled error to its
\* caller; none stays waiting forever.
C1_OutstandingCallsAreCancelled ==
    \A c \in Calls : [](c \in at_shutdown => <>(callresult[c] = "Cancelled"))

\* C2: in every state reached after shutdown() has returned, the set of
\* pendings is empty and neither the receiver task nor the timeout monitor is
\* in its loop.
C2_NothingLeftAfterShutdown ==
    (\E s \in Shutdowns : shutpc[s] = "done") =>
        /\ pendings = <<>>
        /\ receiver_pc # "loop"
        /\ timeout_pc # "loop"

\* C3: a call (with a payload) invoked after shutdown() has returned does not
\* wait, and returns the error of a closed send channel with no pending of
\* its own left in the resolver.
C3_CallAfterShutdownIsRefused ==
    \A c \in Calls :
        (call_after_shutdown[c] /\ callpayload[c]) =>
            /\ callpc[c] # "waiting"
            /\ callpc[c] = "done" =>
                  (callresult[c] = "ChannelRecvError" /\ c \notin PendingCalls(pendings))

\* C4: without a shutdown, a call whose request was sent and is never
\* answered returns Timeout: its pending is removed by a tick of the monitor,
\* not before it has waited REQUEST_TIMEOUT_DURATION, no tick leaves a pending
\* that has waited that long, and no pending of the call remains afterwards.
C4_UnansweredCallTimesOut ==
    /\ \A c \in Calls :
          (callpc[c] = "waiting") ~> (callresult[c] = "Timeout" \/ completion[c] = "Response")
    /\ [][\A c \in Calls :
             (completion[c] = "none" /\ completion'[c] = "Timeout") =>
                 /\ timeout_pc = "loop" /\ timer >= TIMEOUT_MONITORING_INTERVAL /\ timer' = 0
                 /\ \E i \in 1..Len(pendings) :
                       pendings[i].call = c /\ pendings[i].age >= REQUEST_TIMEOUT_DURATION
                 /\ c \notin PendingCalls(pendings')]_vars
    /\ [][(timer >= TIMEOUT_MONITORING_INTERVAL /\ timer' = 0) =>
             \A i \in 1..Len(pendings') : pendings'[i].age < REQUEST_TIMEOUT_DURATION]_vars
    /\ [](\A c \in Calls : callresult[c] = "Timeout" => c \notin PendingCalls(pendings))

\* C4 witness: a call has returned Timeout while another pending, younger, is kept.
C4_Witness ==
    \E c \in Calls : callresult[c] = "Timeout" /\ pendings # <<>>

\* C5: the resolver never holds more pendings than there are calls that have
\* started and not returned.
C5_PendingsBoundedByCallsInFlight ==
    Len(pendings) <= Cardinality({c \in Calls : callpc[c] \in {"registered", "waiting"}})

\* C6: every shutdown() that is invoked returns, and once one shutdown() has
\* returned, no step of another shutdown() changes anything of the session.
C6_ShutdownIsIdempotent ==
    /\ \A s \in Shutdowns : (shutpc[s] # "idle") ~> (shutpc[s] = "done")
    /\ [][((\E s \in Shutdowns : shutpc[s] = "done") /\ shutpc' # shutpc) =>
             UNCHANGED <<flagVars, channelVars, resolverVars, notifyVars, callVars,
                         receiverVars, timeoutVars>>]_vars

\* C6 witness: both shutdown() invocations have returned, the receiver task
\* having ended before any shutdown asked it to.
C6_Witness ==
    /\ \A s \in Shutdowns : shutpc[s] = "done"
    /\ ~receiver_request

\* C7: a call whose request has no payload returns MissingRequestPayload and
\* changes nothing else: no pending is registered, nothing is sent.
C7_MissingPayloadIsRefused ==
    [][\A c \in Calls :
          (callpc[c] = "idle" /\ callpc'[c] # "idle" /\ ~callpayload'[c]) =>
              /\ callpc'[c] = "done"
              /\ callresult'[c] = "MissingRequestPayload"
              /\ UNCHANGED <<channelVars, resolverVars, notifyVars, receiverVars,
                             timeoutVars, shutpc>>]_vars

\* C7 witness: a call has returned MissingRequestPayload.
C7_Witness ==
    \E c \in Calls : callresult[c] = "MissingRequestPayload" /\ ~callpayload[c]

\* C8: stop_notify returns UnsupportedFeature exactly when the server did not
\* advertise has_notify_command, and then puts no command on the wire and
\* leaves the subscriptions as they are; otherwise the Notifier stops the
\* listener's subscription.
C8_StopNotifyUnsupported ==
    [][last_op'.name = "stop_notify" =>
          /\ (last_result' = "UnsupportedFeature") <=> ~handle_stop_notify
          /\ ~handle_stop_notify =>
                (issued' = <<>> /\ UNCHANGED <<listeners, active, wire_subscribed>>)
          /\ handle_stop_notify =>
                (last_result' = "Ok" /\ ~active'[last_op'.id][last_op'.event])]_notifierVars

\* C8 witness: stop_notify was refused for an active subscription.
C8_Witness ==
    /\ last_op.name = "stop_notify"
    /\ last_result = "UnsupportedFeature"
    /\ active[last_op.id][last_op.event]

\* C9 as stated: a wire Subscribe for an event type is in flight or
\* acknowledged iff its count is at least 1 and the server advertised
\* has_notify_command.
C9_WireSubscribedIffCounted ==
    \A e \in EventTypes : wire_subscribed[e] <=> (Count(e) >= 1 /\ handle_stop_notify)

\* C9 as amended: with a server that advertised has_notify_command, a wire
\* Subscribe for an event type is in flight or acknowledged iff its count is
\* at least 1; with a server that did not, it is whenever the count is at
\* least 1, and no Stop command is sent.
C9_WireSubscribedWhileCounted ==
    \A e \in EventTypes :
        /\ handle_stop_notify => (wire_subscribed[e] <=> Count(e) >= 1)
        /\ ~handle_stop_notify =>
              /\ Count(e) >= 1 => wire_subscribed[e]
              /\ \A i \in 1..Len(issued) : issued[i].command = "Start"

\* C9 witness: a server without has_notify_command, and an event type with an
\* active listener and its Subscribe on the wire.
C9_Witness ==
    /\ ~handle_stop_notify
    /\ \E e \in EventTypes : Count(e) >= 1 /\ wire_subscribed[e]

\* The commands of the last operation for event type e with command cmd.
IssuedFor(cmds, e, cmd) ==
    {i \in 1..Len(cmds) : cmds[i].event = e /\ cmds[i].command = cmd}

\* C10: with a server that advertised has_notify_command, an operation puts
\* one Start on the wire for an event type exactly when it raises the count
\* from 0, one Stop exactly when it lowers the count to 0, and nothing else.
C10_WireCommandsOnlyAtZeroOne ==
    [][handle_stop_notify =>
          \A e \in EventTypes :
              /\ Cardinality(IssuedFor(issued', e, "Start")) =
                     (IF Count(e) = 0 /\ (Count(e))' >= 1 THEN 1 ELSE 0)
              /\ Cardinality(IssuedFor(issued', e, "Stop")) =
                     (IF Count(e) >= 1 /\ (Count(e))' = 0 THEN 1 ELSE 0)]_notifierVars

\* C10 witness: with two listeners registered, the stop_notify of the last
\* active one has put the Stop on the wire.
C10_Witness ==
    /\ handle_stop_notify
    /\ Cardinality(listeners) = 2
    /\ last_op.name = "stop_notify"
    /\ issued = <<[event |-> last_op.event, command |-> "Stop"]>>

\* C11: start_notify(id, E) followed by stop_notify(id, E), for a registered
\* listener, leaves the listener's subscription record for E as it was
\* before the pair, whatever the server advertised; stated for the case the
\* claim names, a record that was inactive before the pair.
C11_StartThenStopRestoresRecord ==
    [][(/\ last_op.name = "start_notify"
        /\ last_op.id \in listeners
        /\ ~record_before
        /\ last_op'.name = "stop_notify"
        /\ last_op'.id = last_op.id
        /\ last_op'.event = last_op.event) =>
           ~active'[last_op.id][last_op.event]]_notifierVars

\* C12: under an active subscription the chain-changed filter returns, for a
\* chain-changed notification with accepted transaction ids when the
\* subscription does not include them, a notification with the same added
\* and removed hashes and no accepted transaction id; in every other case it
\* returns the notification unchanged.
C12_ChainChangedFilter ==
    (filter_result # Unapplied /\ filter_subscription.active) =>
        /\ filter_result.some
        /\ IF /\ filter_notification.event = "VirtualSelectedParentChainChanged"
              /\ ~filter_subscription.include_accepted_transaction_ids
              /\ Len(filter_notification.accepted_transaction_ids) > 0
           THEN /\ filter_result.value.event = filter_notification.event
                /\ filter_result.value.added_chain_block_hashes =
                       filter_notification.added_chain_block_hashes
                /\ filter_result.value.removed_chain_block_hashes =
                       filter_notification.removed_chain_block_hashes
                /\ filter_result.value.accepted_transaction_ids = <<>>
           ELSE filter_result.value = filter_notification

\* C12 witness: the filter of a subscription that does not include accepted
\* transaction ids has been applied to a notification that carries two, with
\* added and removed hashes, and they are gone from the result.
C12_Witness ==
    /\ filter_result # Unapplied
    /\ filter_subscription.active
    /\ ~filter_subscription.include_accepted_transaction_ids
    /\ filter_notification.event = "VirtualSelectedParentChainChanged"
    /\ filter_notification.accepted_transaction_ids = <<"t1", "t2">>
    /\ filter_notification.added_chain_block_hashes = <<"h1", "h2">>
    /\ filter_notification.removed_chain_block_hashes = <<"h1">>
    /\ filter_result.value.accepted_transaction_ids = <<>>

\* C13: the resolver is the id-based one exactly when the first response of
\* the handshake was a GetInfo response with has_message_id, and the
\* queue-based one otherwise, also when that response converts to no GetInfo
\* response; the resolver and the two flags are set before a task is spawned
\* and never change afterwards.
C13_ResolverFixedByHandshake ==
    /\ [](connect_pc \in {"created", "monitor_spawned", "ready"} =>
            /\ resolver = (IF first_response.kind = "GetInfo" /\ first_response.has_message_id
                           THEN "id" ELSE "queue")
            /\ handle_message_id =
                   (first_response.kind = "GetInfo" /\ first_response.has_message_id)
            /\ handle_stop_notify =
                   (first_response.kind = "GetInfo" /\ first_response.has_notify_command))
    /\ []((timeout_pc # "unspawned" \/ receiver_pc # "unspawned") =>
            (resolver \in {"id", "queue"} /\ first_response.kind \in {"GetInfo", "other"}))
    /\ [][resolver # "none" =>
             UNCHANGED <<resolver, handle_stop_notify, handle_message_id, first_response>>]_vars

\* C13 witness: after a handshake that advertised message ids a call has got
\* its response through the id-based resolver.
C13_Witness ==
    /\ connect_pc = "ready"
    /\ first_response.kind = "GetInfo"
    /\ first_response.has_message_id
    /\ resolver = "id"
    /\ \E c \in Calls : callresult[c] = "Response"

\* The pendings a response to request q would complete were it given to the
\* oldest pending of q's operation.
OldestOfOp(P, q) ==
    LET hits == {i \in 1..Len(P) : P[i].op = q.op}
    IN IF hits = {} THEN {} ELSE {P[CHOOSE i \in hits : \A j \in hits : i <= j].call}

C15_ShutdownReturnsWhenStreamCloses ==
    /\ (receiver_pc = "stopping") ~>
           (receiver_pc = "ended" /\ ~receiver_is_running /\ receiver_response)
    /\ [](receiver_pc = "ended" => (~receiver_is_running /\ receiver_response))
    /\ \A s \in Shutdowns : (shutpc[s] # "idle") ~> (shutpc[s] = "done")
    /\ [](\A s \in Shutdowns :
            /\ shutpc[s] = "await_receiver" =>
                   (receiver_request /\ (receiver_response \/ receiver_pc # "ended"))
            /\ shutpc[s] = "await_timeout" =>
                   (timeout_request /\ (timeout_response \/ timeout_pc # "ended")))

\* C15 witness: the receiver task ended on the end of the stream, no
\* shutdown() having asked it to stop, and a shutdown() that stopped the
\* monitor has returned.
C15_Witness ==
    /\ receiver_pc = "ended"
    /\ ~receiver_request
    /\ timeout_request
    /\ timeout_pc = "ended"
    /\ \E s \in Shutdowns : shutpc[s] = "done"

\* The receiver task reads the oldest inbound message in this step.
ReadsMessage == inbound # <<>> /\ inbound' = Tail(inbound)

\* The resolver is given message m in this step: the first pending that
\* matches m, if any, is removed and completed, and no other changes.
GivenToResolver(m) ==
    LET i == match_index(pendings, m)
    IN /\ pendings' = (IF i = 0 THEN pendings ELSE RemoveAt(pendings, i))
       /\ completion' = (IF i = 0 THEN completion
                         ELSE [completion EXCEPT ![pendings[i].call] = "Response"])

\* The notification of message m is forwarded to the channel in this step,
\* as far as it converts and the channel takes it.
ForwardedToNotifier(m) ==
    notify_queue' = (IF m.convertible /\ notify_open /\ Len(notify_queue) < NotifyChannelCapacity
                     THEN Append(notify_queue, m.event) ELSE notify_queue)

\* C16 as stated: a message the receiver task reads is forwarded towards the
\* Notifier, and kept from the resolver, when it is a notification; in every
\* other case it is given to the resolver, and kept from the Notifier.
C16_EveryMessageRoutedOneWay ==
    [][ReadsMessage =>
          IF Head(inbound).is_notification
          THEN ForwardedToNotifier(Head(inbound)) /\ UNCHANGED <<pendings, completion>>
          ELSE GivenToResolver(Head(inbound)) /\ UNCHANGED notify_queue]_vars

\* C16 as amended: a notification is forwarded towards the Notifier and kept
\* from the resolver; a message that is no notification is given to the
\* resolver when it has a payload, and is dropped, reaching neither, when it
\* has none.
C16_MessageRoutedByKindAndPayload ==
    [][ReadsMessage =>
          IF Head(inbound).is_notification
          THEN ForwardedToNotifier(Head(inbound)) /\ UNCHANGED <<pendings, completion>>
          ELSE IF Head(inbound).payload
               THEN GivenToResolver(Head(inbound)) /\ UNCHANGED notify_queue
               ELSE UNCHANGED <<pendings, completion, notify_queue>>]_vars

\* C16 witness: with an id-based resolver, the response to a call's request
\* has been read and the call is still pending: the response had no payload.
C16_Witness ==
    /\ resolver = "id"
    /\ \E c \in Calls :
          /\ callpc[c] = "waiting"
          /\ c \in PendingCalls(pendings)
          /\ \A i \in 1..Len(request_stream) : request_stream[i].call # c
          /\ \A i \in 1..Len(inbound) : inbound[i].req # c

\* Position of the request of call c on the send queue, 0 when it is not there.
SendPosition(c) ==
    LET at == {k \in 1..Len(request_stream) : request_stream[k].call = c}
    IN IF at = {} THEN 0 ELSE CHOOSE k \in at : TRUE

\* C17: with a queue-based resolver, the pendings of one operation are
\* registered in the order their requests are placed on the send queue; and
\* so, as long as the server has answered in request order and no pending
\* has expired, the response to the oldest request completes the call that
\* sent it.
C17_RegisteredInSendOrder ==
    /\ [](resolver = "queue" =>
            \A i, j \in 1..Len(pendings) :
                (/\ i < j
                 /\ pendings[i].op = pendings[j].op
                 /\ SendPosition(pendings[i].call) # 0
                 /\ SendPosition(pendings[j].call) # 0) =>
                    SendPosition(pendings[i].call) < SendPosition(pendings[j].call))
    /\ [][(/\ resolver = "queue"
            /\ \A c \in Calls : completion[c] # "Timeout" /\ response_of[c] \in {0, c}
            /\ request_stream # <<>>
            /\ request_stream' = Tail(request_stream)) =>
               \A c \in Calls : response_of'[c] \in {0, c}]_vars

\* C18: a pending is removed exactly when its caller is completed, with the
\* response or with Timeout, and that happens once: a completed call is not
\* completed again, the resolver holds at most one pending of a call, and a
\* call that waits returns what it was completed with, a response or Timeout.
C18_CompletedExactlyOnce ==
    /\ [][\A c \in Calls :
             /\ completion[c] # "none" => completion'[c] = completion[c]
             /\ (completion[c] = "none" /\ completion'[c] # "none") =>
                    /\ completion'[c] \in {"Response", "Timeout"}
                    /\ c \in PendingCalls(pendings)
                    /\ c \notin PendingCalls(pendings')
             /\ (c \in PendingCalls(pendings) /\ c \notin PendingCalls(pendings')) =>
                    (completion[c] = "none" /\ completion'[c] # "none")]_vars
    /\ [](\A c \in Calls :
            /\ Cardinality({i \in 1..Len(pendings) : pendings[i].call = c}) <= 1
            /\ c \in PendingCalls(pendings) => completion[c] = "none"
            /\ callresult[c] \in {"Response", "Timeout"} => callresult[c] = completion[c])
    /\ \A c \in Calls :
          (callpc[c] = "waiting") ~>
              (callpc[c] = "done" /\ callresult[c] \in {"Response", "Timeout"})

\* C18 witness: the monitor has expired the pending of a call whose request
\* the server had still to answer, and the call has returned Timeout.
C18_Witness ==
    \E c \in Calls :
        /\ callresult[c] = "Timeout"
        /\ completion[c] = "Timeout"
        /\ \E i \in 1..Len(request_stream) : request_stream[i].call = c

\* The notifications the receiver task has forwarded and the channel has
\* kept, in the order the collector gets them.
Delivered == collected \o notify_queue

\* C19: the notifications in the channel are in the order the receiver task
\* read them from the stream, which is the order the server sent them in:
\* some may be missing, none is out of order, and each was read before any
\* notification still on the stream.
C19_NotificationsKeepOrder ==
    /\ \A i, j \in 1..Len(Delivered) : i < j => Delivered[i].seq < Delivered[j].seq
    /\ \A i \in 1..Len(Delivered), k \in 1..Len(inbound) :
          inbound[k].is_notification => Delivered[i].seq < inbound[k].event.seq

\* C19 witness: the collector has taken the first and the third
\* notification, the second having been dropped.
C19_Witness ==
    /\ Len(collected) = 2
    /\ collected[1].seq = 1
    /\ collected[2].seq = 3

\* The notification channel takes nothing more: it is full, or its receiver
\* has been dropped.
ChannelBlocked == ~notify_open \/ Len(notify_queue) >= NotifyChannelCapacity

\* C20: a full or closed notification channel never blocks the receiver
\* task. While the task is in its loop it can always read the next inbound
\* message; a notification read while the channel is full or closed is
\* dropped, leaving the channel and the pendings as they are and the task in
\* its loop; and a response read while the channel is full or closed still
\* completes the pending it matches.
C20_BlockedChannelNeverBlocksReceiver ==
    /\ [](receiver_pc = "loop" /\ inbound # <<>> => ENABLED receive_message)
    /\ [][ReadsMessage /\ ChannelBlocked =>
            /\ receiver_pc' = "loop"
            /\ IF Head(inbound).is_notification
               THEN UNCHANGED <<notify_queue, pendings, completion>>
               ELSE /\ UNCHANGED notify_queue
                    /\ Head(inbound).payload => GivenToResolver(Head(inbound))]_vars

\* C20 witness: the third notification has been read and dropped on a full
\* channel the collector never took from, and the response that followed it
\* on the stream, to a call that is still pending, is the next message.
C20_Witness ==
    /\ receiver_pc = "loop"
    /\ collected = <<>>
    /\ Len(notify_queue) = NotifyChannelCapacity
    /\ notified = NotifyChannelCapacity + 1
    /\ Len(inbound) = 1
    /\ ~inbound[1].is_notification
    /\ inbound[1].payload
    /\ match_index(pendings, inbound[1]) # 0

\* No call that has not got a response gets one in this step.
NoResponseCompleted ==
    \A c \in Calls : completion'[c] = "Response" => completion[c] = "Response"

\* C21: the receiver task leaves its loop only when the stream has ended or
\* its shutdown has been requested. Reading a stream error logs it and
\* leaves the task in its loop with the pendings and the notification channel
\* as they were, and a message the stream yields while the task is in its
\* loop, after an error as well as before, can be read and is handled. Once
\* the task has left its loop it never returns to it, and from then on no
\* message is taken from the stream, no call gets a response and nothing
\* enters the notification channel.
C21_ReceiverLeavesOnlyOnEndOrShutdown ==
    /\ [][receiver_pc = "loop" /\ receiver_pc' # "loop" =>
            \/ receiver_request
            \/ inbound # <<>> /\ Head(inbound) = end_of_stream]_vars
    /\ [][logged_errors' # logged_errors =>
            /\ receiver_pc = "loop"
            /\ receiver_pc' = "loop"
            /\ UNCHANGED <<pendings, completion, notify_queue>>]_vars
    /\ [](receiver_pc = "loop" /\ inbound # <<>> /\ is_message(Head(inbound)) =>
            ENABLED receiver_message_read)
    /\ [][ReadsMessage /\ is_message(Head(inbound)) /\ Head(inbound).payload =>
            GivenToResolver(Head(inbound))]_vars
    /\ [][receiver_pc # "loop" =>
            /\ receiver_pc' # "loop"
            /\ Len(inbound') >= Len(inbound)
            /\ NoResponseCompleted
            /\ UNCHANGED notify_queue]_vars

\* C21 witness: the receiver task has logged an error and is in its loop, and
\* the next thing the stream yields is the response to a pending call.
C21_Witness ==
    /\ logged_errors = 1
    /\ receiver_pc = "loop"
    /\ inbound # <<>>
    /\ is_message(Head(inbound))
    /\ Head(inbound).payload
    /\ match_index(pendings, Head(inbound)) # 0

\* Request q carries a correlation id: its id field is set (the field of a
\* message that carries none has the value 0 and is left off the wire).
carries_id(q) == q.id # 0

\* C22: a request on the wire carries a correlation id if and only if the
\* server negotiated message ids; with a queue-based resolver the requests
\* carry none.
C22_IdOnWireIffNegotiated ==
    \A i \in 1..Len(request_stream) : carries_id(request_stream[i]) <=> handle_message_id

\* C23 as stated: whichever of the three filters has been applied, it
\* returned no notification when the subscription it was given is inactive.
C23_NoFilterDeliversToInactive ==
    (filter_result # Unapplied /\ ~filter_subscription.active) => filter_result = None

\* C23 as amended: the overall and the chain-changed filter return no
\* notification when the subscription they are given is inactive; the
\* UTXO-changed filter returns the notification as it is, whether the
\* subscription is active or not.
C23_InactiveDropsExceptUtxosChanged ==
    filter_result # Unapplied =>
        IF filter_subscription \in UtxosChangedSubscriptions
        THEN filter_result = Some(filter_notification)
        ELSE ~filter_subscription.active => filter_result = None

\* C23 witness: the UTXO-changed filter has been applied with an inactive
\* subscription to a UTXO-changed notification.
C23_Witness ==
    /\ filter_result # Unapplied
    /\ filter_subscription \in UtxosChangedSubscriptions
    /\ ~filter_subscription.active
    /\ filter_notification.event = "UtxosChanged"

\* The pending of call c has been registered: it is with the resolver, or the
\* resolver has removed it and completed the call.
HasBeenRegistered(c) == c \in PendingCalls(pendings) \/ completion[c] # "none"

\* C24: a call registers its pending before it puts its request on the send
\* queue. The step that puts the request of a call on the queue finds the
\* pending of that call registered, and so every request on the wire, whose
\* response the receiver task may read next, is the request of a call whose
\* pending has been registered.
C24_RegisteredBeforeSent ==
    /\ [][\A c \in Calls :
            (SendPosition(c) = 0 /\ SendPosition(c)' # 0) =>
                callpc[c] = "registered" /\ HasBeenRegistered(c)]_vars
    /\ [](\A i \in 1..Len(request_stream) : HasBeenRegistered(request_stream[i].call))

\* C24 witness: with two calls in flight, the receiver task has read the
\* response to the request of one and completed it, while the other has
\* registered its pending and not sent its request.
C24_Witness ==
    \E c, d \in Calls :
        /\ c # d
        /\ completion[c] = "Response"
        /\ response_of[c] = c
        /\ callpc[d] = "registered"
        /\ d \in PendingCalls(pendings)
        /\ SendPosition(d) = 0

====
